---- MODULE Spec2Model ----
(***************************************************************************)
(* Candidate-to-job matching pipeline of app.py: the /search_jobs route    *)
(* (query planning, provider loop with URL de-duplication and early exit,  *)
(* blocklist filter, truncation, batched AI scoring with one rate-limit    *)
(* retry, best-effort sheet append) and get_ai_scores.                     *)
(*                                                                         *)
(* Strings the code inspects (titles, company names, queries, blocklist    *)
(* words) are tuples of one-character strings, so that re.sub, replace,    *)
(* strip, split, join, lower and the substring test `in` are computed the  *)
(* way Python computes them.  Strings the code only passes around (match   *)
(* reasons, locations, snippets, skills) are TLA+ strings.                 *)
(***************************************************************************)
EXTENDS Integers, Sequences, FiniteSets, TLC

VARIABLES
    pc,                \* position of the request handler
    sheet,             \* process-wide sink handle: "none", "ok", "flaky", "down"
    raw_titles,        \* data.get('job_titles', [])
    candidate_skills,  \* data.get('cv_skills', [])
    search_queries,    \* the planner's query sequence
    qi,                \* index of the next query of the provider loop
    raw_results,       \* aggregated postings, first-seen order
    seen_urls,         \* set of links already aggregated
    final_jobs,        \* filtered, truncated, scored postings
    si,                \* index of the next posting of the sink loop
    response,          \* what the route returned: [status, body]
    clock,             \* seconds slept so far (time.sleep)
    issued,            \* the keywords of the provider requests sent, in order
    last_outcome,      \* which provider outcome the last request met (0: none yet)
    void,              \* every request so far failed or returned no jobs
    returned,          \* links of the responses read without error so far
    filtered_jobs,     \* final_jobs as the filter loop left it, before `[:15]`
    ai_log,            \* one record per scoring call / sleep
    sink_log           \* one record per append_row attempted

vars == << pc, sheet, raw_titles, candidate_skills, search_queries, qi,
           raw_results, seen_urls, final_jobs, si, response, clock,
           issued, last_outcome, void, returned, filtered_jobs, ai_log, sink_log >>

(***************************************************************************)
(* Values                                                                  *)
(***************************************************************************)
Min(a, b) == IF a < b THEN a ELSE b

InSeq(x, s) == \E i \in 1..Len(s) : s[i] = x

NoDuplicates(s) == \A i, j \in 1..Len(s) : i # j => s[i] # s[j]

(***************************************************************************)
(* Python string operations, on tuples of characters                       *)
(***************************************************************************)
Whitespace == {" ", "\t", "\n"}

UpperAlpha == << "A","B","C","D","E","F","G","H","I","J","K","L","M",
                 "N","O","P","Q","R","S","T","U","V","W","X","Y","Z" >>
LowerAlpha == << "a","b","c","d","e","f","g","h","i","j","k","l","m",
                 "n","o","p","q","r","s","t","u","v","w","x","y","z" >>

UpperSet == { UpperAlpha[i] : i \in 1..Len(UpperAlpha) }

LowerMap ==
    [c \in UpperSet |-> LowerAlpha[CHOOSE i \in 1..Len(UpperAlpha) : UpperAlpha[i] = c]]

LowerChar(c) == IF c \in UpperSet THEN LowerMap[c] ELSE c

\* str.lower()
Lower(s) == [i \in 1..Len(s) |-> LowerChar(s[i])]

\* `w in s` for strings: substring containment
Contains(s, w) ==
    \E i \in 0..(Len(s) - Len(w)) : \A k \in 1..Len(w) : s[i + k] = w[k]

\* In re.sub(r'\(.*?\)', '', t): the end of the match that starts at the
\* "(" at position i, or 0 when there is none.  The lazy `.*?` stops at the
\* first ")" and `.` does not match a newline.
CloseAt(t, i) ==
    LET closes == { j \in (i + 1)..Len(t) :
                      /\ t[j] = ")"
                      /\ \A k \in (i + 1)..(j - 1) : t[k] # "\n" }
    IN  IF closes = {} THEN 0
        ELSE CHOOSE j \in closes : \A k \in closes : j <= k

RECURSIVE StripFrom(_, _)
StripFrom(t, i) ==
    IF i > Len(t) THEN << >>
    ELSE IF t[i] = "(" /\ CloseAt(t, i) # 0 THEN StripFrom(t, CloseAt(t, i) + 1)
    ELSE << t[i] >> \o StripFrom(t, i + 1)

\* re.sub(r'\(.*?\)', '', t)
StripParens(t) == StripFrom(t, 1)

\* .replace('/', ' ')
ReplaceSlash(t) == [i \in 1..Len(t) |-> IF t[i] = "/" THEN " " ELSE t[i]]

\* .strip()
Strip(t) ==
    LET keep == { i \in 1..Len(t) : t[i] \notin Whitespace }
    IN  IF keep = {} THEN << >>
        ELSE SubSeq(t, CHOOSE i \in keep : \A k \in keep : i <= k,
                       CHOOSE i \in keep : \A k \in keep : i >= k)

\* .split(): the maximal runs of non-whitespace characters, in order
RECURSIVE SplitFrom(_, _, _)
SplitFrom(t, i, word) ==
    IF i > Len(t) THEN (IF word = << >> THEN << >> ELSE << word >>)
    ELSE IF t[i] \in Whitespace
         THEN (IF word = << >> THEN << >> ELSE << word >>) \o SplitFrom(t, i + 1, << >>)
         ELSE SplitFrom(t, i + 1, Append(word, t[i]))

Split(t) == SplitFrom(t, 1, << >>)

\* " ".join(words)
RECURSIVE Join(_)
Join(words) ==
    IF words = << >> THEN << >>
    ELSE IF Len(words) = 1 THEN words[1]
    ELSE words[1] \o << " " >> \o Join(Tail(words))

(***************************************************************************)
(* 1. Query planner (search_jobs, "SMART QUERIES")                         *)
(***************************************************************************)
\* "Business Analyst", the query appended after the loop
FallbackQuery ==
    <<"B","u","s","i","n","e","s","s"," ","A","n","a","l","y","s","t">>

\* How many raw titles the planner reads: raw_titles[:2]
TitlesUsed == 2

CleanTitle(t) == Strip(ReplaceSlash(StripParens(t)))

\* `if clean_t not in search_queries: search_queries.append(clean_t)`
AppendIfNew(queries, q) == IF InSeq(q, queries) THEN queries ELSE Append(queries, q)

\* One iteration of `for t in raw_titles[:2]`
PlanTitle(queries, t) ==
    LET clean_t  == CleanTitle(t)
        withFull == AppendIfNew(queries, clean_t)
        words    == Split(clean_t)
    IN  IF Len(words) >= 2
        THEN AppendIfNew(withFull, Join(SubSeq(words, 1, 2)))
        ELSE withFull

RECURSIVE PlanLoop(_, _)
PlanLoop(queries, titles) ==
    IF titles = << >> THEN queries
    ELSE PlanLoop(PlanTitle(queries, Head(titles)), Tail(titles))

\* `search_queries.append("Business Analyst")`
AppendFallback(queries) == Append(queries, FallbackQuery)

\* The planner reading every raw title
PlanQueriesAllTitles(titles) ==
    AppendFallback(PlanLoop(<< >>, titles))

\* The planner: the loop over the first two titles, then the fixed fallback
PlanQueries(titles) ==
    AppendFallback(PlanLoop(<< >>, SubSeq(titles, 1, Min(TitlesUsed, Len(titles)))))

(***************************************************************************)
(* Python / JSON values.  A value carries its type, so that a missing key, *)
(* a JSON null, a number and a string stay distinguishable.                *)
(***************************************************************************)
Absent     == << "absent" >>            \* the key is not in the dict
JNull      == << "null" >>              \* None
Text(cs)   == << "text", cs >>          \* a string the code inspects (characters)
Str(s)     == << "str", s >>            \* a string the code passes around
JInt(n)    == << "int", n >>            \* an integer
Url(i)     == << "url", i >>            \* the i-th distinct listing URL (a string)
Unhashable == << "list" >>              \* a JSON array or object (unhashable)

\* dict.get(key, default)
Get(v, default) == IF v = Absent THEN default ELSE v

(***************************************************************************)
(* The provider's postings.  Posting(i) is the dict the provider returns   *)
(* for listing i; only link, title and company take part in the pipeline's *)
(* decisions.                                                              *)
(***************************************************************************)
TitleAnalyst   == <<"D","a","t","a"," ","A","n","a","l","y","s","t">>
TitleRecruiter == <<"S","e","n","i","o","r"," ","R","E","C","R","U","I","T","E","R">>
TitleBackstage == <<"B","a","c","k","s","t","a","g","e"," ","E","n","g","i","n","e","e","r">>
TitlePython    == <<"P","y","t","h","o","n"," ","D","e","v","e","l","o","p","e","r">>
CompanyAcme    == <<"A","c","m","e"," ","B","V">>
CompanyAgency  == <<"R","a","n","d","s","t","a","d"," ","S","t","a","f","f","i","n","g"," ","A","g","e","n","c","y">>
CompanyUnknown == <<"U","n","k","n","o","w","n">>

PostingTitle(i) ==
    IF i % 13 = 0 THEN Absent
    ELSE IF i % 5 = 0 THEN Text(TitleRecruiter)
    ELSE IF i % 11 = 0 THEN Text(TitleBackstage)
    ELSE IF i % 2 = 0 THEN Text(TitlePython)
    ELSE Text(TitleAnalyst)

PostingCompany(i) ==
    IF i % 7 = 0 THEN Text(CompanyAgency)
    ELSE IF i % 9 = 0 THEN Absent
    ELSE Text(CompanyAcme)

Posting(i) ==
    [ kind     |-> "dict",
      link     |-> Url(i),
      title    |-> PostingTitle(i),
      company  |-> PostingCompany(i),
      location |-> IF i % 4 = 0 THEN Absent ELSE Str("Utrecht"),
      snippet  |-> IF i % 6 = 0 THEN Absent ELSE Str("snippet") ]

\* The same URL listed again under another title
Relisted(i) == [Posting(i) EXCEPT !.title = Text(TitleRecruiter)]
\* A listing without a link key, one whose link is not a string, one whose
\* title is null, and an array element that is no object at all
NoLink(i)       == [Posting(i) EXCEPT !.link = Absent]
ListLink(i)     == [Posting(i) EXCEPT !.link = Unhashable]
NullTitle(i)    == [Posting(i) EXCEPT !.title = JNull]
NotADict        == [kind |-> "null"]

\* A page of n consecutive listings starting at listing s
Block(s, n) == [k \in 1..n |-> Posting(s + k - 1)]

(***************************************************************************)
(* 2. Provider loop and aggregation (search_jobs, "JOOBLE FETCH")          *)
(***************************************************************************)
\* `if len(raw_results) >= 25: break`
QueryCeiling == 25

\* Listings on a full provider page
PageSize == 13

\* What one provider request can come to.  "error": requests.post or
\* response.json() raises, or the body is no JSON object.  "jobs": the body
\* is an object and data.get('jobs', []) is this array.
ProviderOutcomes ==
    << [kind |-> "error"],
       [kind |-> "jobs", jobs |-> << >>],
       [kind |-> "jobs", jobs |-> Block(1, PageSize)],
       [kind |-> "jobs", jobs |-> Block(PageSize - 4, PageSize)],
       [kind |-> "jobs", jobs |-> Block(PageSize + 1, PageSize - 1)],
       [kind |-> "jobs", jobs |-> << Posting(1), Relisted(1), NoLink(42), NoLink(43),
                                     Posting(41), NotADict, Posting(44) >>],
       [kind |-> "jobs", jobs |-> << NullTitle(46), ListLink(47), Posting(48) >>] >>

\* `j.get('link')`
LinkOf(j) == Get(j.link, JNull)

\* Does handling array element j raise?  j.get on a non-dict is an
\* AttributeError; `in seen_urls` on an unhashable link is a TypeError.
EntryRaises(j) == j.kind # "dict" \/ LinkOf(j) = Unhashable

\* The seen-set test left out
IsNewLinkAlways(j, seen) == TRUE

\* `if j.get('link') not in seen_urls`
IsNewLink(j, seen) == LinkOf(j) \notin seen

\* `for j in jobs:` from the state (results, seen): append the unseen, stop
\* at the first element that raises (the except clause then `continue`s).
RECURSIVE AggregateJobs(_, _, _)
AggregateJobs(jobs, results, seen) ==
    IF jobs = << >> THEN [raw_results |-> results, seen_urls |-> seen, raised |-> FALSE]
    ELSE LET j == Head(jobs) IN
         IF EntryRaises(j)
         THEN [raw_results |-> results, seen_urls |-> seen, raised |-> TRUE]
         ELSE IF IsNewLink(j, seen)
         THEN AggregateJobs(Tail(jobs), Append(results, j), seen \cup {LinkOf(j)})
         ELSE AggregateJobs(Tail(jobs), results, seen)

\* The try block of one loop iteration, for provider outcome `out`
HandleOutcome(out, results, seen) ==
    IF out.kind = "error"
    THEN [raw_results |-> results, seen_urls |-> seen, raised |-> TRUE]
    ELSE AggregateJobs(out.jobs, results, seen)

\* What the iteration came to: "failed" (the except clause ran), "empty"
\* (no exception, no jobs) or "results"
OutcomeClass(out) ==
    IF HandleOutcome(out, << >>, {}).raised THEN "failed"
    ELSE IF out.jobs = << >> THEN "empty"
    ELSE "results"

\* The break taken one posting late: `>` for `>=`
CeilingExceeded(results) == Len(results) > QueryCeiling

\* `if len(raw_results) >= 25: break`
CeilingReached(results) == Len(results) >= QueryCeiling

\* The provider loop is over: the queries are exhausted or the break is taken
LoopOver == qi > Len(search_queries) \/ CeilingReached(raw_results)

(***************************************************************************)
(* 3. Relevance filter and truncation                                      *)
(***************************************************************************)
forbidden_words ==
    << <<"r","e","c","r","u","i","t","m","e","n","t">>,
       <<"r","e","c","r","u","i","t","e","r">>,
       <<"t","a","l","e","n","t"," ","a","c","q","u","i","s","i","t","i","o","n">>,
       <<"h","r"," ","m","a","n","a","g","e","r">>,
       <<"h","u","m","a","n"," ","r","e","s","o","u","r","c","e","s">>,
       <<"h","e","a","d","h","u","n","t","e","r">>,
       <<"a","g","e","n","c","y">>,
       <<"s","t","a","f","f","i","n","g">>,
       <<"w","e","r","v","i","n","g">>,
       <<"s","e","l","e","c","t","i","e">>,
       <<"s","u","p","p","l","y"," ","c","h","a","i","n">>,
       <<"l","o","g","i","s","t","i","c","s">>,
       <<"w","a","r","e","h","o","u","s","e">>,
       <<"o","p","e","r","a","t","i","o","n","s"," ","m","a","n","a","g","e","r">>,
       <<"f","l","o","o","r"," ","m","a","n","a","g","e","r">>,
       <<"s","t","o","r","e"," ","m","a","n","a","g","e","r">>,
       <<"c","a","t","e","g","o","r","y"," ","m","a","n","a","g","e","r">>,
       <<"f","a","c","i","l","i","t","y">>,
       <<"c","o","o","r","d","i","n","a","t","o","r">>,
       <<"c","o","m","m","i","s","s","i","o","n","i","n","g">>,
       <<"q","u","a","l","i","t","y">>,
       <<"e","n","v","i","r","o","n","m","e","n","t","a","l">>,
       <<"a","u","d","i","t">>,
       <<"c","o","m","p","l","i","a","n","c","e">>,
       <<"l","e","g","a","l">>,
       <<"s","a","l","e","s">>,
       <<"a","c","c","o","u","n","t"," ","m","a","n","a","g","e","r">>,
       <<"m","a","r","k","e","t","i","n","g">>,
       <<"c","o","m","m","e","r","c","i","a","l">>,
       <<"g","r","o","w","t","h">>,
       <<"s","m","e">>,
       <<"f","i","n","a","n","c","i","a","l">>,
       <<"a","c","c","o","u","n","t","a","n","t">>,
       <<"t","a","x">>,
       <<"t","r","e","a","s","u","r","y">>,
       <<"c","o","n","t","r","o","l","l","e","r">>,
       <<"c","l","e","a","n","e","r">>,
       <<"d","r","i","v","e","r">>,
       <<"m","e","c","h","a","n","i","c">>,
       <<"n","u","r","s","e">>,
       <<"t","e","a","c","h","e","r">>,
       <<"i","n","t","e","r","n","s","h","i","p">>,
       <<"s","t","a","g","e">> >>

\* `final_jobs = final_jobs[:15]`
ResultCap == 15

\* `any(bad in text for bad in forbidden_words)`
AnyForbidden(text) ==
    \E k \in 1..Len(forbidden_words) : Contains(text, forbidden_words[k])

\* job.get(field, '').lower() raises AttributeError when the value is None
LowerRaises(v) == Get(v, Text(<< >>)) = JNull

\* job.get(field, '').lower()
LowerOf(v) == Lower(Get(v, Text(<< >>))[2])

\* The filter looking at the title only
IsBlockedByTitle(job) ==
    AnyForbidden(LowerOf(job.title))

\* The two `continue` tests of the filter loop
IsBlocked(job) ==
    \/ AnyForbidden(LowerOf(job.title))
    \/ AnyForbidden(LowerOf(job.company))

\* The dict appended to final_jobs
FinalJob(job) ==
    [ title        |-> Get(job.title, JNull),
      company      |-> Get(job.company, Text(CompanyUnknown)),
      location     |-> Get(job.location, Str("Netherlands")),
      job_url      |-> LinkOf(job),
      description  |-> Get(job.snippet, Str("")),
      match_score  |-> JInt(0),
      match_reason |-> Str("Analyzing...") ]

\* `for job in raw_results:` does some job's title or company make it raise?
FilterRaises(results) ==
    \E i \in 1..Len(results) :
        LowerRaises(results[i].title) \/ LowerRaises(results[i].company)

RECURSIVE FilterJobs(_)
FilterJobs(results) ==
    IF results = << >> THEN << >>
    ELSE IF IsBlocked(Head(results)) THEN FilterJobs(Tail(results))
    ELSE << FinalJob(Head(results)) >> \o FilterJobs(Tail(results))

\* A dict of final_jobs as the filter loop's job.get calls read it: it has
\* the keys title, company and location, and no key link or snippet
AsPosting(job) ==
    [kind |-> "dict", link |-> Absent, title |-> job.title,
     company |-> job.company, location |-> job.location, snippet |-> Absent]

\* The input of a second run of the filter loop over its own output
FilterInput(jobs) == [p \in 1..Len(jobs) |-> AsPosting(jobs[p])]

\* The slice one posting too long
TruncateLate(jobs) == SubSeq(jobs, 1, Min(ResultCap + 1, Len(jobs)))

\* `final_jobs[:15]`
Truncate(jobs) == SubSeq(jobs, 1, Min(ResultCap, Len(jobs)))

(***************************************************************************)
(* 4. AI scoring (get_ai_scores)                                           *)
(***************************************************************************)
\* `jobs_to_score = jobs[:10]`
ScoreBatch == 10

\* `time.sleep(65)`
Cooldown == 65

\* One element of the reply's "scores" array
Entry(id, score, reason) ==
    [kind |-> "dict", id |-> id, score |-> score, reason |-> reason]

\* The content of a reply of the AI service: text that json.loads rejects
\* ("invalid"), a JSON array ("array"), or a JSON object with its "scores"
\* array ("object").
AiReplies ==
    << [json |-> "invalid"],
       [json |-> "array"],
       [json |-> "object", scores |-> << >>],
       [json |-> "object", scores |->
           << Entry(JInt(0), JInt(95), Str("Strong")),
              Entry(JInt(1), JInt(40), Str("Weak")) >>],
       [json |-> "object", scores |->
           << Entry(JInt(1), JInt(70), Str("Good")),
              Entry(JInt(0), JInt(55), Str("Fair")),
              Entry(JInt(1), JInt(20), Str("Poor")) >>],
       [json |-> "object", scores |->
           << Entry(JInt(10), JInt(80), Str("Beyond")),
              Entry(JInt(2), JInt(60), Str("Okay")),
              Entry(JNull, JInt(30), Str("Nobody")) >>],
       [json |-> "object", scores |->
           << Entry(JInt(0 - 1), JInt(90), Str("Last")) >>],
       [json |-> "object", scores |->
           << Entry(JInt(0), JInt(88), Str("Good")), NotADict >>],
       [json |-> "object", scores |->
           << Entry(Str("0"), JInt(66), Str("Text id")),
              Entry(JInt(0), JInt(77), Str("Fine")) >>],
       [json |-> "object", scores |->
           << Entry(JInt(0), JInt(150), Absent) >>],
       [json |-> "object", scores |->
           << Entry(JInt(2), JInt(65), Str("Okay")),
              Entry(JInt(0 - 20), JInt(10), Str("Far")) >>] >>

\* `len(jobs_to_score)` for jobs_to_score = jobs[:10]
BatchSize(jobs) == Min(ScoreBatch, Len(jobs))

\* The prompt numbering the postings from 1
JobTextBlockFromOne(jobs) ==
    [p \in 1..BatchSize(jobs) |->
        [id |-> p, title |-> jobs[p].title, company |-> jobs[p].company,
         description |-> jobs[p].description]]

\* job_text_block: one line "ID idx: title at company - description" for
\* each posting of jobs_to_score, idx counting from 0
JobTextBlock(jobs) ==
    [p \in 1..BatchSize(jobs) |->
        [id |-> p - 1, title |-> jobs[p].title, company |-> jobs[p].company,
         description |-> jobs[p].description]]

\* `idx = item.get("id")`
IdOf(item) == Get(item.id, JNull)

\* `idx is not None and idx < len(jobs_to_score)`, for an integer idx
IdAccepted(n, jobs) == n < BatchSize(jobs)

\* The position (counted from 1) that jobs[n] addresses in a Python list of
\* that length, or 0 when jobs[n] is an IndexError
ListIndex(n, len) ==
    IF n >= 0 THEN (IF n < len THEN n + 1 ELSE 0)
    ELSE (IF n >= 0 - len THEN len + n + 1 ELSE 0)

\* Does handling item raise?  item.get on a non-dict; `<` between a str and
\* an int; jobs[idx] out of range
ItemRaises(item, jobs) ==
    \/ item.kind # "dict"
    \/ IdOf(item)[1] = "str"
    \/ /\ IdOf(item)[1] = "int"
       /\ IdAccepted(IdOf(item)[2], jobs)
       /\ ListIndex(IdOf(item)[2], Len(jobs)) = 0

\* The two assignments of the loop body
ApplyItem(item, jobs) ==
    IF IdOf(item) = JNull \/ ~IdAccepted(IdOf(item)[2], jobs) THEN jobs
    ELSE [jobs EXCEPT ![ListIndex(IdOf(item)[2], Len(jobs))] =
             [@ EXCEPT !.match_score  = Get(item.score, JNull),
                       !.match_reason = Get(item.reason, JNull)]]

\* `for item in score_data.get("scores", []):` in place, up to the first
\* item that raises
RECURSIVE MergeItems(_, _)
MergeItems(items, jobs) ==
    IF items = << >> THEN jobs
    ELSE IF ItemRaises(Head(items), jobs) THEN jobs
    ELSE MergeItems(Tail(items), ApplyItem(Head(items), jobs))

\* The scored slice returned in place of the list
ParseReplyBatchOnly(reply, jobs) ==
    IF reply.json # "object" THEN jobs
    ELSE SubSeq(MergeItems(reply.scores, jobs), 1, BatchSize(jobs))

\* The "Parse Response" try block: jobs after it
ParseReply(reply, jobs) ==
    IF reply.json # "object" THEN jobs ELSE MergeItems(reply.scores, jobs)

\* Did the except clause of the parse block run?
RECURSIVE ItemsRaise(_, _)
ItemsRaise(items, jobs) ==
    IF items = << >> THEN FALSE
    ELSE IF ItemRaises(Head(items), jobs) THEN TRUE
    ELSE ItemsRaise(Tail(items), ApplyItem(Head(items), jobs))

ParseRaises(reply, jobs) ==
    IF reply.json # "object" THEN TRUE ELSE ItemsRaise(reply.scores, jobs)

\* A failed call answered with an empty list
UnscoredDropped(jobs) == << >>

\* get_ai_scores: `return jobs` when a call failed for good
UnscoredResult(jobs) == jobs

\* The scorer entered whenever there are skills
ScoringSkippedNoSkills(jobs, skills) == skills = << >>

\* `if not jobs or not skills_list: return jobs`, and `if candidate_skills:`
ScoringSkipped(jobs, skills) == jobs = << >> \/ skills = << >>

\* Every failure retried
RetriedAlways(failure) == TRUE

\* `if "429" in str(e)`: is the failed first call retried?
Retried(failure) == failure = "rate_limit"

(***************************************************************************)
(* 5. Result sink                                                          *)
(***************************************************************************)
\* `if sheet and final_jobs:`
SinkRuns(handle, jobs) == handle # "none" /\ jobs # << >>

\* Does sheet.append_row raise for the i-th row?  A store that is down
\* rejects every row, a flaky one every other row.
AppendRaises(handle, i) == handle = "down" \/ (handle = "flaky" /\ i % 2 = 1)

(***************************************************************************)
(* Requests                                                                *)
(***************************************************************************)
RawSenior    == <<"S","e","n","i","o","r"," ","D","a","t","a"," ","A","n","a","l","y","s","t"," ","(","R","e","m","o","t","e",")">>
RawDataMl    == <<"D","a","t","a","/","M","L"," ","E","n","g","i","n","e","e","r">>
RawDeveloper == <<"D","e","v","e","l","o","p","e","r">>
RawRemote    == <<"(","R","e","m","o","t","e",")">>
RawAnalystNl == <<"B","u","s","i","n","e","s","s"," ","A","n","a","l","y","s","t"," ","(","N","L",")">>
RawSpaced    == <<" ","L","e","a","d"," "," ","J","a","v","a","\t","D","e","v"," ">>

\* Raw titles a candidate profile may carry
RawTitleMenu ==
    { RawSenior, RawDataMl, RawDeveloper, RawRemote, RawAnalystNl, RawSpaced, << >> }

\* Longest job_titles list of the planner's specification
MaxRawTitles == 3

TitleLists ==
    UNION { [1..n -> RawTitleMenu] : n \in 0..MaxRawTitles }

\* job_titles of the requests the whole pipeline is run on: 1, 2, 3 and 5
\* planner queries
RequestTitles ==
    { << >>, << RawAnalystNl >>, << RawSenior >>, << RawSenior, RawDataMl, RawDeveloper >> }

RequestSkills == { << >>, << "SQL", "Python" >> }

SheetHandles == { "none", "ok", "flaky", "down" }

(***************************************************************************)
(* The request handler search_jobs as a state machine                      *)
(***************************************************************************)
InitWith(titles) ==
    /\ pc = "plan"
    /\ sheet \in SheetHandles
    /\ raw_titles \in titles
    /\ candidate_skills \in RequestSkills
    /\ search_queries = << >>
    /\ qi = 1
    /\ raw_results = << >>
    /\ seen_urls = {}
    /\ final_jobs = << >>
    /\ si = 1
    /\ response = [status |-> 0, body |-> << >>]
    /\ clock = 0
    /\ issued = << >>
    /\ last_outcome = 0
    /\ void = TRUE
    /\ returned = {}
    /\ filtered_jobs = << >>
    /\ ai_log = << >>
    /\ sink_log = << >>

Init == InitWith(RequestTitles)

\* 1. the planner
Plan ==
    /\ pc = "plan"
    /\ search_queries' = PlanQueries(raw_titles)
    /\ pc' = "fetch"
    /\ UNCHANGED << sheet, raw_titles, candidate_skills, qi, raw_results, seen_urls,
                    final_jobs, si, response, clock, issued, last_outcome, void, returned, filtered_jobs, ai_log, sink_log >>

\* 2. one iteration of `for title in search_queries:`
FetchQuery ==
    /\ pc = "fetch"
    /\ ~LoopOver
    /\ \E r \in 1..Len(ProviderOutcomes) :
        LET out == ProviderOutcomes[r]
            agg == HandleOutcome(out, raw_results, seen_urls)
        IN  /\ raw_results' = agg.raw_results
            /\ seen_urls' = agg.seen_urls
            /\ last_outcome' = r
            /\ void' = (void /\ OutcomeClass(out) # "results")
            /\ returned' = IF OutcomeClass(out) = "results"
                           THEN returned \cup { LinkOf(out.jobs[k]) : k \in 1..Len(out.jobs) }
                           ELSE returned
    /\ issued' = Append(issued, search_queries[qi])
    /\ qi' = qi + 1
    /\ UNCHANGED << pc, sheet, raw_titles, candidate_skills, search_queries,
                    final_jobs, filtered_jobs, si, response, clock, ai_log, sink_log >>

\* 3. the loop is left; filter and truncate.  An exception here is not
\* caught: the route answers 500.
FilterStage ==
    /\ pc = "fetch"
    /\ LoopOver
    /\ IF FilterRaises(raw_results)
       THEN /\ pc' = "crashed"
            /\ response' = [status |-> 500, body |-> << >>]
            /\ UNCHANGED << final_jobs, filtered_jobs >>
       ELSE /\ pc' = "score"
            /\ filtered_jobs' = FilterJobs(raw_results)
            /\ final_jobs' = Truncate(filtered_jobs')
            /\ UNCHANGED response
    /\ UNCHANGED << sheet, raw_titles, candidate_skills, search_queries, qi,
                    raw_results, seen_urls, si, clock, issued, last_outcome, void, returned, ai_log, sink_log >>

\* One record of the scoring log; a call carries the prompt it sent
AiEvent(ev, result, reply) ==
    [ev |-> ev, result |-> result, reply |-> reply, at |-> clock,
     prompt |-> IF ev = "call" THEN JobTextBlock(final_jobs) ELSE << >>]

ScoreFrame ==
    UNCHANGED << sheet, raw_titles, candidate_skills, search_queries, qi,
                 raw_results, seen_urls, si, response, issued, last_outcome, void, returned, filtered_jobs, sink_log >>

\* 4. no skills or no postings: no scoring call
SkipScoring ==
    /\ pc = "score"
    /\ ScoringSkipped(final_jobs, candidate_skills)
    /\ pc' = "save"
    /\ UNCHANGED << final_jobs, clock, ai_log >>
    /\ ScoreFrame

\* ATTEMPT 1 answers; the reply is parsed and merged
Attempt1Reply ==
    /\ pc = "score"
    /\ ~ScoringSkipped(final_jobs, candidate_skills)
    /\ \E r \in 1..Len(AiReplies) :
        /\ final_jobs' = ParseReply(AiReplies[r], final_jobs)
        /\ ai_log' = Append(ai_log, AiEvent("call", "reply", r))
    /\ pc' = "save"
    /\ UNCHANGED clock
    /\ ScoreFrame

\* ATTEMPT 1 raises
Attempt1Fails ==
    /\ pc = "score"
    /\ ~ScoringSkipped(final_jobs, candidate_skills)
    /\ \E failure \in {"rate_limit", "error"} :
        /\ ai_log' = Append(ai_log, AiEvent("call", failure, 0))
        /\ IF Retried(failure)
           THEN pc' = "cooldown" /\ UNCHANGED final_jobs
           ELSE pc' = "save" /\ final_jobs' = UnscoredResult(final_jobs)
    /\ UNCHANGED clock
    /\ ScoreFrame

\* The retry fired without the wait
SleepNotHonoured ==
    /\ pc = "cooldown"
    /\ ai_log' = Append(ai_log, AiEvent("sleep", "slept", 0))
    /\ pc' = "retry"
    /\ UNCHANGED << final_jobs, clock >>
    /\ ScoreFrame

\* `time.sleep(65)`
Sleep ==
    /\ pc = "cooldown"
    /\ clock' = clock + Cooldown
    /\ ai_log' = Append(ai_log, AiEvent("sleep", "slept", 0))
    /\ pc' = "retry"
    /\ UNCHANGED final_jobs
    /\ ScoreFrame

\* ATTEMPT 2 answers
Attempt2Reply ==
    /\ pc = "retry"
    /\ \E r \in 1..Len(AiReplies) :
        /\ final_jobs' = ParseReply(AiReplies[r], final_jobs)
        /\ ai_log' = Append(ai_log, AiEvent("call", "reply", r))
    /\ pc' = "save"
    /\ UNCHANGED clock
    /\ ScoreFrame

\* ATTEMPT 2 raises: `return jobs`
Attempt2Fails ==
    /\ pc = "retry"
    /\ \E failure \in {"rate_limit", "error"} :
        ai_log' = Append(ai_log, AiEvent("call", failure, 0))
    /\ final_jobs' = UnscoredResult(final_jobs)
    /\ pc' = "save"
    /\ UNCHANGED clock
    /\ ScoreFrame

\* The sink loop given up at the first append that raises
AppendRowAborting ==
    /\ pc = "save"
    /\ SinkRuns(sheet, final_jobs)
    /\ si <= Len(final_jobs)
    /\ sink_log' = Append(sink_log, [url    |-> final_jobs[si].job_url,
                                     stored |-> ~AppendRaises(sheet, si)])
    /\ si' = IF AppendRaises(sheet, si) THEN Len(final_jobs) + 1 ELSE si + 1
    /\ UNCHANGED << pc, sheet, raw_titles, candidate_skills, search_queries, qi,
                    raw_results, seen_urls, final_jobs, response, clock,
                    issued, last_outcome, void, returned, filtered_jobs, ai_log >>

\* 5. one iteration of `for job in final_jobs:` of the sink
AppendRow ==
    /\ pc = "save"
    /\ SinkRuns(sheet, final_jobs)
    /\ si <= Len(final_jobs)
    /\ sink_log' = Append(sink_log, [url    |-> final_jobs[si].job_url,
                                     stored |-> ~AppendRaises(sheet, si)])
    /\ si' = si + 1
    /\ UNCHANGED << pc, sheet, raw_titles, candidate_skills, search_queries, qi,
                    raw_results, seen_urls, final_jobs, response, clock,
                    issued, last_outcome, void, returned, filtered_jobs, ai_log >>

\* `return jsonify(final_jobs)`
Respond ==
    /\ pc = "save"
    /\ ~SinkRuns(sheet, final_jobs) \/ si > Len(final_jobs)
    /\ response' = [status |-> 200, body |-> final_jobs]
    /\ pc' = "done"
    /\ UNCHANGED << sheet, raw_titles, candidate_skills, search_queries, qi,
                    raw_results, seen_urls, final_jobs, si, clock,
                    issued, last_outcome, void, returned, filtered_jobs, ai_log, sink_log >>

Next ==
    \/ Plan
    \/ FetchQuery
    \/ FilterStage
    \/ SkipScoring
    \/ Attempt1Reply
    \/ Attempt1Fails
    \/ Sleep
    \/ Attempt2Reply
    \/ Attempt2Fails
    \/ AppendRow
    \/ Respond

Spec == Init /\ [][Next]_vars

\* The handler's position: where it stands, and how far its two loops are
position == << pc, qi, si >>

\* Next seen on the position alone: under the guard of each step of the
\* handler, the move that step makes
Advance ==
    \/ pc = "plan" /\ pc' = "fetch" /\ UNCHANGED << qi, si >>
    \/ pc = "fetch" /\ ~LoopOver /\ qi' = qi + 1 /\ UNCHANGED << pc, si >>
    \/ pc = "fetch" /\ LoopOver /\ pc' \in {"crashed", "score"} /\ UNCHANGED << qi, si >>
    \/ pc = "score" /\ ScoringSkipped(final_jobs, candidate_skills)
                    /\ pc' = "save" /\ UNCHANGED << qi, si >>
    \/ pc = "score" /\ ~ScoringSkipped(final_jobs, candidate_skills)
                    /\ pc' \in {"save", "cooldown"} /\ UNCHANGED << qi, si >>
    \/ pc = "cooldown" /\ pc' = "retry" /\ UNCHANGED << qi, si >>
    \/ pc = "retry" /\ pc' = "save" /\ UNCHANGED << qi, si >>
    \/ pc = "save" /\ SinkRuns(sheet, final_jobs) /\ si <= Len(final_jobs)
                   /\ si' = si + 1 /\ UNCHANGED << pc, qi >>
    \/ pc = "save" /\ (~SinkRuns(sheet, final_jobs) \/ si > Len(final_jobs))
                   /\ pc' = "done" /\ UNCHANGED << qi, si >>

\* The handler is one synchronous thread: as long as every external call
\* returns or raises, the step it stands at is taken
FairSpec == Spec /\ WF_position(Advance)

\* The planner alone, on every list of up to MaxRawTitles raw titles
PlannerInit ==
    /\ InitWith(TitleLists)
    /\ sheet = "none"
    /\ candidate_skills = << >>

PlannerSpec == PlannerInit /\ [][Plan]_vars

(***************************************************************************)
(* Properties                                                              *)
(***************************************************************************)
\* A posting that still carries the defaults the filter stage gave it
IsDefault(job) ==
    job.match_score = JInt(0) /\ job.match_reason = Str("Analyzing...")

AllDefault(jobs) == \A p \in 1..Len(jobs) : IsDefault(jobs[p])

\* The scoring calls made so far
AiCalls == { i \in 1..Len(ai_log) : ai_log[i].ev = "call" }

\* get_ai_scores has returned after parsing the reply of its last call
ReplyParsed ==
    /\ pc \in {"save", "done"}
    /\ ai_log # << >>
    /\ ai_log[Len(ai_log)].result = "reply"

LastReply == AiReplies[ai_log[Len(ai_log)].reply]

\* An entry of a reply whose id is an integer of [0, k)
ValidEntry(item, k) ==
    /\ item.kind = "dict"
    /\ item.id[1] = "int"
    /\ 0 <= item.id[2] /\ item.id[2] < k

\* The entries of the reply that address the posting at position p (from 1)
EntriesFor(reply, p, k) ==
    IF reply.json # "object" THEN {}
    ELSE { i \in 1..Len(reply.scores) :
             ValidEntry(reply.scores[i], k) /\ reply.scores[i].id[2] = p - 1 }

\* C1: for every non-empty job_titles, the planner's query sequence (the
\* fallback included) is non-empty and holds no two equal queries.
C1_PlannerNoDuplicates ==
    (pc # "plan" /\ raw_titles # << >>) =>
        (search_queries # << >> /\ NoDuplicates(search_queries))

\* C2: after a reply is merged, every posting that no entry with an id in
\* [0, K) addresses still has its prior (default) score and reason; entries
\* with an id outside [0, K), negative ids included, change nothing.
C2_OutOfRangeIdsIgnored ==
    ReplyParsed =>
        \A p \in 1..Len(final_jobs) :
            EntriesFor(LastReply, p, BatchSize(final_jobs)) = {}
                => IsDefault(final_jobs[p])

\* The first call was rejected for rate limiting and the second one answered
RetrySucceeded ==
    /\ Len(ai_log) = 3
    /\ ai_log[1].result = "rate_limit"
    /\ ai_log[3].result = "reply"

\* A reply of the expected shape: an object whose entries all have an
\* integer id of [0, k)
WellFormed(reply, k) ==
    /\ reply.json = "object"
    /\ \A i \in 1..Len(reply.scores) : ValidEntry(reply.scores[i], k)

\* The posting at position p carries what the reply says about it: the
\* values of the last entry for p, or the defaults when there is none
CarriesReply(job, reply, p, k) ==
    LET mine == EntriesFor(reply, p, k) IN
    IF mine = {} THEN IsDefault(job)
    ELSE LET last == CHOOSE i \in mine : \A j \in mine : j <= i IN
         /\ job.match_score = Get(reply.scores[last].score, JNull)
         /\ job.match_reason = Get(reply.scores[last].reason, JNull)

\* C3: when the first scoring call is rejected for rate limiting and the
\* second answers, the sleep lies between the two calls, the second call is
\* made at least the cooldown after the first, and the postings (and the
\* response body) carry the scores and reasons of the second call's reply.
C3_RetryCarriesSecondReply ==
    /\ (pc = "retry") => (ai_log[Len(ai_log)].ev = "sleep")
    /\ RetrySucceeded =>
        /\ ai_log[1].ev = "call" /\ ai_log[2].ev = "sleep" /\ ai_log[3].ev = "call"
        /\ ai_log[3].at >= ai_log[1].at + Cooldown
        /\ WellFormed(LastReply, BatchSize(final_jobs)) =>
               \A p \in 1..Len(final_jobs) :
                   CarriesReply(final_jobs[p], LastReply, p, BatchSize(final_jobs))
        /\ (pc = "done") => (response.body = final_jobs)

C3_Witness ==
    /\ pc = "done"
    /\ RetrySucceeded
    /\ ai_log[3].reply = 4
    /\ Len(response.body) >= 2
    /\ response.body[1].match_score = JInt(95)
    /\ response.body[2].match_reason = Str("Weak")

\* C4: at most two scoring calls per run; a second call only after the
\* first was rejected for rate limiting (and after the sleep); any other
\* first failure ends the scoring with no sleep and no retry; nothing
\* follows the second call.
C4_AtMostOneRetry ==
    /\ Cardinality(AiCalls) <= 2
    /\ Len(ai_log) <= 3
    /\ \A i \in 1..Len(ai_log) :
        /\ (ai_log[i].ev = "call" /\ i > 1) =>
               (i = 3 /\ ai_log[1].result = "rate_limit" /\ ai_log[2].ev = "sleep")
        /\ (ai_log[i].ev = "sleep") =>
               (i = 2 /\ ai_log[1].result = "rate_limit")
    /\ (ai_log # << >> /\ ai_log[1].result \in {"error", "reply"}) => (Len(ai_log) = 1)

C4_Witness ==
    /\ pc = "done"
    /\ Len(ai_log) = 3
    /\ ai_log[1].result = "rate_limit"
    /\ ai_log[3].result \in {"rate_limit", "error"}

\* The first call and the retry both failed
BothCallsFailed ==
    /\ Len(ai_log) = 3
    /\ ai_log[1].result # "reply"
    /\ ai_log[3].result # "reply"

\* The titles and company names the provider's postings carry, and for each
\* whether its lowercased form contains a blocklist word
KnownTexts ==
    { TitleAnalyst, TitleRecruiter, TitleBackstage, TitlePython,
      CompanyAcme, CompanyAgency, << >> }

TextBlocked ==
    [t \in KnownTexts |->
        \E k \in 1..Len(forbidden_words) : Contains(Lower(t), forbidden_words[k])]

\* A posting the filter must let through: neither its title nor its
\* company name (a missing one counts as empty) is blocked
Survives(job) ==
    /\ ~TextBlocked[Get(job.title, Text(<< >>))[2]]
    /\ ~TextBlocked[Get(job.company, Text(<< >>))[2]]

\* The filter's survivors in arrival order, as (link, title) pairs
Identity(jobs) == [p \in 1..Len(jobs) |-> << jobs[p].job_url, jobs[p].title >>]

SurvivorIdentity ==
    LET kept == SelectSeq(raw_results, Survives)
    IN  [p \in 1..Len(kept) |-> << LinkOf(kept[p]), Get(kept[p].title, JNull) >>]

\* The first min(15, n) of the n survivors
CappedSurvivors ==
    LET all == SurvivorIdentity IN SubSeq(all, 1, Min(ResultCap, Len(all)))

\* C5: when the scoring call fails on the first attempt and on the retry,
\* every posting keeps score 0 and the default reason, the handler does not
\* fail, and the response is a success carrying the unscored list.
C5_TotalFailureUnscored ==
    BothCallsFailed =>
        /\ pc \in {"save", "done"}
        /\ AllDefault(final_jobs)
        /\ (pc = "save") => ENABLED (AppendRow \/ Respond)
        /\ (pc = "done") =>
            /\ response = [status |-> 200, body |-> final_jobs]
            /\ Identity(response.body) = CappedSurvivors

C5_Witness ==
    /\ pc = "done"
    /\ BothCallsFailed
    /\ response.status = 200
    /\ Len(response.body) = ResultCap

\* A reply that is not valid JSON of the expected shape: no JSON object, or
\* an entry that is no object or whose id is a string
Malformed(reply) ==
    \/ reply.json # "object"
    \/ \E i \in 1..Len(reply.scores) :
         \/ reply.scores[i].kind # "dict"
         \/ reply.scores[i].id[1] = "str"

\* C6: when the reply is malformed, get_ai_scores returns normally and every
\* posting keeps score 0 and the default reason, also when well-formed
\* entries precede the malformed one.
C6_MalformedReplyUnscored ==
    (ReplyParsed /\ Malformed(LastReply)) => AllDefault(final_jobs)

\* The set of links of the aggregated postings
AggregatedLinks == { Get(raw_results[i].link, JNull) : i \in 1..Len(raw_results) }

\* C7: no two aggregated postings share a link (as many distinct links as
\* postings), the aggregated links are the seen set, and every link of a
\* response that was read without error is aggregated: exactly one posting
\* for each.
C7_AggregationDedup ==
    /\ Cardinality(AggregatedLinks) = Len(raw_results)
    /\ AggregatedLinks = seen_urls
    /\ returned \subseteq AggregatedLinks

\* Two overlapping pages were read: the second repeats five links of the first
C7_Witness ==
    /\ Len(issued) = 2
    /\ last_outcome = 4
    /\ Cardinality(returned) = 2 * PageSize - 5
    /\ Len(raw_results) = 2 * PageSize - 5

\* C8: if every provider query fails or returns zero results, search_jobs
\* answers with success and an empty list, makes no scoring call and
\* attempts no sink append.
C8_VoidRunAnswersEmpty ==
    (pc = "done" /\ void) =>
        /\ response = [status |-> 200, body |-> << >>]
        /\ ai_log = << >>
        /\ sink_log = << >>

\* C8, the part about the loop: a provider request that fails leaves the
\* handler in the provider loop, at the next query.
C8_FailedQueryContinues ==
    [][ (issued' # issued /\ OutcomeClass(ProviderOutcomes[last_outcome']) = "failed")
            => (pc' = "fetch" /\ qi' = qi + 1) ]_vars

\* C9: a provider request is sent only while fewer than 25 postings are
\* aggregated, and it carries the next planner query; the loop is left only
\* when 25 are reached or every planner query has been sent.
C9_EarlyExit ==
    [][ /\ (issued' # issued) =>
            /\ Len(raw_results) < QueryCeiling
            /\ Len(issued) < Len(search_queries)
            /\ issued' = Append(issued, search_queries[Len(issued) + 1])
        /\ (pc = "fetch" /\ pc' # "fetch") =>
            \/ Len(raw_results) >= QueryCeiling
            \/ issued = search_queries ]_vars

\* The ceiling is met exactly after two of five queries; three are not sent
C9_Witness ==
    /\ pc = "score"
    /\ Len(raw_results) = QueryCeiling
    /\ Len(search_queries) = 5
    /\ Len(issued) = 2

\* C10: the returned list has at most 15 postings and is the first
\* min(15, n) of the n filter survivors, in arrival order.
C10_ResultCap ==
    (pc = "done") =>
        /\ Len(response.body) <= ResultCap
        /\ Identity(response.body) = CappedSurvivors

C10_Witness ==
    /\ pc = "done"
    /\ Len(response.body) = ResultCap
    /\ Len(SurvivorIdentity) > ResultCap

\* C11: when the filter loop has run, the list it leaves (before the
\* truncation) holds exactly the aggregated postings of which neither the
\* lowercased title nor the lowercased company name contains a blocklist
\* word, in their aggregation order.
C11_FilterExact ==
    (pc = "score") => (Identity(filtered_jobs) = SurvivorIdentity)

\* More than 15 survive, and postings were dropped for the title alone, for
\* the company alone and for a word inside a longer word
C11_Witness ==
    /\ pc = "score"
    /\ Len(filtered_jobs) > ResultCap
    /\ \E i \in 1..Len(raw_results) :
          /\ raw_results[i].title = Text(TitleRecruiter)
          /\ raw_results[i].company = Text(CompanyAcme)
    /\ \E i \in 1..Len(raw_results) :
          /\ raw_results[i].title = Text(TitleAnalyst)
          /\ raw_results[i].company = Text(CompanyAgency)
    /\ \E i \in 1..Len(raw_results) : raw_results[i].title = Text(TitleBackstage)
    /\ \A i \in 1..Len(raw_results) :
          raw_results[i].company = Text(CompanyAgency)
              => \A p \in 1..Len(filtered_jobs) : filtered_jobs[p].job_url # LinkOf(raw_results[i])

\* A query that is empty or made of whitespace only
Blank(q) == \A i \in 1..Len(q) : q[i] \in Whitespace

\* C12: the planner's query sequence never contains an empty (blank) query:
\* a raw title that is empty after cleaning is skipped.
C12_NoBlankQuery ==
    (pc # "plan") => \A i \in 1..Len(search_queries) : ~Blank(search_queries[i])

\* The links of the rows whose append was attempted, in order
AttemptedLinks == [i \in 1..Len(sink_log) |-> sink_log[i].url]

\* The links of the first n postings of a list
LinksOf(jobs, n) == [i \in 1..n |-> jobs[i].job_url]

\* C13: with the sink enabled, the appends attempted so far are those of
\* the first postings of the final list, one each and in list order,
\* whether or not earlier appends raised; when the route has answered, one
\* append was attempted for every final posting and the response is a
\* success carrying the full list.
C13_SinkBestEffort ==
    (sheet # "none" /\ pc \in {"save", "done"}) =>
        /\ Len(sink_log) = si - 1
        /\ Len(sink_log) <= Len(final_jobs)
        /\ AttemptedLinks = LinksOf(final_jobs, Len(sink_log))
        /\ (pc = "done") =>
            /\ Len(sink_log) = Len(final_jobs)
            /\ response = [status |-> 200, body |-> final_jobs]

\* The first append raised, the following ones were attempted all the same
C13_Witness ==
    /\ pc = "done"
    /\ sheet = "flaky"
    /\ Len(final_jobs) >= 3
    /\ Len(sink_log) = Len(final_jobs)
    /\ ~sink_log[1].stored
    /\ sink_log[2].stored
    /\ ~sink_log[3].stored
    /\ Len(response.body) = Len(sink_log)

\* A posting scored as the data model requires: an integer score of
\* [0, 100] and a reason that is a non-empty string
ProperlyScored(job) ==
    /\ job.match_score[1] = "int"
    /\ 0 <= job.match_score[2] /\ job.match_score[2] <= 100
    /\ job.match_reason[1] = "str"
    /\ job.match_reason # Str("")

\* C14: after a run with a non-empty skill list, every posting of the
\* returned list has an integer match_score in [0, 100] and a non-empty
\* match_reason, whatever the AI service replied.
C14_ScoresInRange ==
    (pc = "done" /\ candidate_skills # << >>) =>
        \A p \in 1..Len(response.body) : ProperlyScored(response.body[p])

\* The scorer has been passed (entered or skipped)
ScoringPassed == pc \in {"cooldown", "retry", "save", "done"}

\* The first attempt is one request for the whole batch: the log starts
\* with a single call, and only a sleep can follow it directly
SingleBatch ==
    (ai_log # << >>) =>
        /\ ai_log[1].ev = "call"
        /\ Len(ai_log[1].prompt) = BatchSize(final_jobs)
        /\ (Len(ai_log) >= 2) => (ai_log[2].ev = "sleep")

\* C15 as stated: a scoring request is issued if and only if the skill
\* list is non-empty, for every filtered list (the empty one included), and
\* the first attempt is a single batched request.
C15_ScoringIffSkills ==
    ScoringPassed =>
        /\ (AiCalls # {}) <=> (candidate_skills # << >>)
        /\ SingleBatch

\* C15, amended: a scoring request is issued if and only if the skill list
\* is non-empty and the filtered, truncated posting list is non-empty; the
\* first attempt is a single batched request.
C15_ScoringIffSkillsAndJobs ==
    ScoringPassed =>
        /\ (AiCalls # {}) <=> (candidate_skills # << >> /\ final_jobs # << >>)
        /\ SingleBatch

\* One request scored a list of several postings
C15_Witness ==
    /\ pc = "done"
    /\ candidate_skills # << >>
    /\ Len(final_jobs) >= 3
    /\ Len(ai_log) = 1
    /\ ai_log[1].result = "reply"
    /\ Len(ai_log[1].prompt) = Len(final_jobs)

\* What the scorer must leave alone: the postings, in order, without their
\* score and reason
Core(jobs) ==
    [p \in 1..Len(jobs) |->
        << jobs[p].title, jobs[p].company, jobs[p].location,
           jobs[p].job_url, jobs[p].description >>]

\* C16: in every outcome of the scorer (skipped, reply merged, reply
\* rejected, one failure, failure of the retry) the list it returns holds
\* the postings the filter stage handed over, as many and in the same
\* order, with title, company, location, job_url and description
\* unchanged: only match_score and match_reason may differ, and the list is
\* never re-sorted by score.
C16_ScorerKeepsPostings ==
    ScoringPassed => (Core(final_jobs) = Core(Truncate(filtered_jobs)))

\* Fifteen postings went in; the second got a higher score than the first
\* and stayed second
C16_Witness ==
    /\ pc = "done"
    /\ Len(final_jobs) = ResultCap
    /\ ai_log # << >>
    /\ ai_log[Len(ai_log)].reply = 5
    /\ final_jobs[1].match_score = JInt(55)
    /\ final_jobs[2].match_score = JInt(20)
    /\ Core(response.body) = Core(Truncate(filtered_jobs))

\* The postings of a list by title and company name
Names(jobs) == [p \in 1..Len(jobs) |-> << jobs[p].title, jobs[p].company >>]

\* C17: running the filter loop again over the list it produced completes,
\* removes no posting and yields the same postings (by title and company,
\* in the same order).
C17_FilterIdempotent ==
    (pc = "score") =>
        /\ ~FilterRaises(FilterInput(filtered_jobs))
        /\ Names(FilterJobs(FilterInput(filtered_jobs))) = Names(filtered_jobs)

\* The prompt lists the first n final postings, each under its position
\* counted from 0 and with its title, company and description
PromptLists(prompt, n) ==
    /\ Len(prompt) = n
    /\ \A p \in 1..n :
          prompt[p] = [id |-> p - 1, title |-> final_jobs[p].title,
                       company |-> final_jobs[p].company,
                       description |-> final_jobs[p].description]

\* C18 as stated: the batched request covers every posting of the
\* truncated list handed to the scorer, each under the id of its position.
C18_PromptCoversAll ==
    \A i \in AiCalls : PromptLists(ai_log[i].prompt, Len(final_jobs))

\* C18, amended: the batched request covers the first min(10, K) postings
\* of the truncated list of K handed to the scorer, each under the id of
\* its position counted from 0; the postings after the tenth are not in
\* the prompt.
C18_PromptCoversBatch ==
    \A i \in AiCalls : PromptLists(ai_log[i].prompt, Min(ScoreBatch, Len(final_jobs)))

\* Fifteen postings were handed over and the request listed ten, the retry
\* too
C18_Witness ==
    /\ pc = "done"
    /\ Len(final_jobs) = ResultCap
    /\ Len(ai_log) = 3
    /\ Len(ai_log[1].prompt) = ScoreBatch
    /\ ai_log[3].prompt[ScoreBatch].id = ScoreBatch - 1
    /\ ai_log[3].prompt[ScoreBatch].title = final_jobs[ScoreBatch].title

\* C19: a provider query that fails (a timeout, a malformed response, a
\* posting list that becomes unreadable part-way through) leaves the
\* aggregated posting list and the seen-URL set as they were before it.
C19_FailedQueryNoEffect ==
    [][ (issued' # issued /\ OutcomeClass(ProviderOutcomes[last_outcome']) = "failed")
            => (raw_results' = raw_results /\ seen_urls' = seen_urls) ]_vars

\* The route has answered (200 with the list, or 500 after an exception
\* that nothing caught)
Answered == response.status # 0

\* The most queries a plan can hold: two per title read, and the fallback
QueryBudget == 2 * TitlesUsed + 1

Sleeps == { i \in 1..Len(ai_log) : ai_log[i].ev = "sleep" }

\* The external calls of a run stay within their budgets
RunBudgets ==
    /\ Len(issued) <= QueryBudget
    /\ Cardinality(AiCalls) <= 2
    /\ Cardinality(Sleeps) <= 1
    /\ Len(sink_log) <= ResultCap

\* Provider queries come before scoring calls, scoring calls before sink
\* appends, and nothing follows the response
RunOrder ==
    /\ (issued' # issued) => (ai_log = << >> /\ sink_log = << >>)
    /\ (ai_log' # ai_log) => (sink_log = << >>)
    /\ Answered => UNCHANGED vars

\* Every step of the handler is the move of Advance, so that the fairness
\* of FairSpec is fairness of the handler's own steps
StepsAdvance == [][Next => <<Advance>>_position]_vars

\* C20: provided every external call returns or raises, every run of
\* search_jobs ends with a response, after at most 5 provider queries, at
\* most 2 scoring calls, at most one cooldown sleep and at most 15 sink
\* appends, the provider queries all before the scoring calls and the
\* scoring calls all before the sink appends.
C20_RunTerminatesBounded ==
    /\ []RunBudgets
    /\ [][RunOrder]_vars
    /\ StepsAdvance
    /\ <>Answered

\* A run that used every budget in full and answered
C20_Witness ==
    /\ pc = "done"
    /\ response.status = 200
    /\ Len(issued) = QueryBudget
    /\ Cardinality(AiCalls) = 2
    /\ Cardinality(Sleeps) = 1
    /\ Len(sink_log) = ResultCap

====
